---- MODULE Spec2Model ----
(***************************************************************************)
(* Model of the retrieval core of the legal letter generator:              *)
(* backend/app/rag_system.py (class RAGSystem) together with the store     *)
(* directory "vector_store/" it persists to.                               *)
(*                                                                         *)
(* A text is a sequence of words; a word is a positive integer that is     *)
(* also its number of characters.  Words of a text are separated by one    *)
(* blank, which is how PDFProcessor.extract_sections joins lines.          *)
(***************************************************************************)
EXTENDS Integers, Sequences, FiniteSets, TLC

\* ------------------------------------------------------------------ bounds
\* chunk_size / chunk_overlap of the text splitter, scaled down from 1000/200;
\* large enough for a word to be carried over from one chunk to the next
ChunkSize == 6
ChunkOverlap == 2
\* texts given to the splitter alone: at most MaxWords words of 1..MaxWord
\* characters (a word is shorter than chunk_size)
MaxWord == 3
MaxWords == 4
\* number of save_vector_store calls explored in one behaviour
MaxSaves == 2
\* similarity_search is called with k in 1..MaxSmallK and with the default k
MaxSmallK == 2

\* ------------------------------------------------------- program constants
\* default k of similarity_search
DefaultK == 5
\* distance the index search reports for a neighbour it does not have
\* (3.4028235e+38 in the float32 index), larger than every real distance here
FLT_MAX == 1000000

\* ---------------------------------------------------------------- helpers
RECURSIVE SumSeq(_)
SumSeq(s) == IF s = <<>> THEN 0 ELSE Head(s) + SumSeq(Tail(s))

RECURSIVE Flatten(_)
Flatten(ss) == IF ss = <<>> THEN <<>> ELSE Head(ss) \o Flatten(Tail(ss))

\* ------------------------------------------------------------ text splitter
\* RecursiveCharacterTextSplitter on a text without newlines: the text is
\* split at " " keeping the blank in front of every piece but the first, and
\* the pieces are merged with the empty separator.
Pieces(content) ==
    [i \in 1..Len(content) |->
        [w |-> content[i], lead |-> IF i = 1 THEN 0 ELSE 1, pos |-> i]]

PieceLen(p) == p.w + p.lead

\* _join_docs: concatenate the pieces and strip the blanks at both ends
JoinDocs(cur) == [i \in 1..Len(cur) |-> cur[i].w]

\* the loop without the test against chunk_overlap: pieces are dropped only
\* until the next piece fits
RECURSIVE PopOverlap_fit_only(_, _, _)
PopOverlap_fit_only(cur, total, plen) ==
    IF cur # <<>> /\ total + plen > ChunkSize /\ total > 0
    THEN PopOverlap_fit_only(Tail(cur), total - PieceLen(Head(cur)), plen)
    ELSE [cur |-> cur, total |-> total]

\* the while loop of _merge_splits that drops pieces from the front of the
\* current chunk until the carried-over part fits the overlap
RECURSIVE PopOverlap(_, _, _)
PopOverlap(cur, total, plen) ==
    IF cur # <<>> /\ (total > ChunkOverlap \/ (total + plen > ChunkSize /\ total > 0))
    THEN PopOverlap(Tail(cur), total - PieceLen(Head(cur)), plen)
    ELSE [cur |-> cur, total |-> total]

RECURSIVE MergeSplits(_, _, _, _)
MergeSplits(splits, docs, cur, total) ==
    IF splits = <<>>
    THEN IF cur = <<>> THEN docs ELSE Append(docs, JoinDocs(cur))
    ELSE LET d     == Head(splits)
             flush == total + PieceLen(d) > ChunkSize /\ Len(cur) > 0
             docs2 == IF flush THEN Append(docs, JoinDocs(cur)) ELSE docs
             p     == IF flush THEN PopOverlap(cur, total, PieceLen(d))
                               ELSE [cur |-> cur, total |-> total]
         IN  MergeSplits(Tail(splits), docs2, Append(p.cur, d), p.total + PieceLen(d))

split_text(content) == MergeSplits(Pieces(content), <<>>, <<>>, 0)

\* the same merge, keeping for every chunk the positions of the first and the
\* last word it is joined from instead of the joined text
RECURSIVE MergeSpans(_, _, _, _)
MergeSpans(splits, docs, cur, total) ==
    LET span(c) == [first |-> c[1].pos, last |-> c[Len(c)].pos]
    IN  IF splits = <<>>
        THEN IF cur = <<>> THEN docs ELSE Append(docs, span(cur))
        ELSE LET d     == Head(splits)
                 flush == total + PieceLen(d) > ChunkSize /\ Len(cur) > 0
                 docs2 == IF flush THEN Append(docs, span(cur)) ELSE docs
                 p     == IF flush THEN PopOverlap(cur, total, PieceLen(d))
                                   ELSE [cur |-> cur, total |-> total]
             IN  MergeSpans(Tail(splits), docs2, Append(p.cur, d), p.total + PieceLen(d))

split_spans(content) == MergeSpans(Pieces(content), <<>>, <<>>, 0)

\* len(text): the words and the blanks between them
TextLen(text) == IF text = <<>> THEN 0 ELSE SumSeq(text) + Len(text) - 1

\* character offset in content at which its word number i starts
WordOffset(content, i) == SumSeq(SubSeq(content, 1, i - 1)) + (i - 1)

\* character offsets at which a chunk starts and ends (end exclusive)
ChunkStart(content, span) == WordOffset(content, span.first)
ChunkEnd(content, span) == WordOffset(content, span.last) + content[span.last]

\* ------------------------------------------------------- embedding encoder
\* embeddings_model.encode on one text: a deterministic two-dimensional vector
encode(text) == <<SumSeq(text), Len(text)>>

\* encode on a batch: one row per text, in order
encode_batch(texts) == [i \in 1..Len(texts) |-> encode(texts[i])]

\* ------------------------------------------------------------ vector index
None == [kind |-> "None"]

\* faiss.IndexFlatL2(dimension): an empty flat index
IndexFlatL2(dimension) ==
    [kind |-> "IndexFlatL2", d |-> dimension, ntotal |-> 0, xb |-> <<>>]

\* index.add(x): the rows are appended to the flat storage
add(ix, rows) ==
    [ix EXCEPT !.ntotal = ix.ntotal + Len(rows), !.xb = ix.xb \o Flatten(rows)]

\* the vector held in slot i (0-based)
reconstruct(ix, i) == SubSeq(ix.xb, i * ix.d + 1, (i + 1) * ix.d)

\* squared Euclidean distance
L2(a, b) == SumSeq([j \in 1..Len(a) |-> (a[j] - b[j]) * (a[j] - b[j])])

\* index.search(x, k): the k nearest slots by ascending distance, ties by the
\* lower slot; neighbours the index does not have are reported as slot -1
RECURSIVE knn(_, _, _, _)
knn(ix, x, cand, k) ==
    IF k = 0 THEN <<>>
    ELSE IF cand = {}
         THEN <<[dist |-> FLT_MAX, idx |-> -1]>> \o knn(ix, x, cand, k - 1)
         ELSE LET dst(i) == L2(x, reconstruct(ix, i))
                  best == CHOOSE i \in cand :
                             \A j \in cand : dst(i) < dst(j) \/ (dst(i) = dst(j) /\ i <= j)
              IN  <<[dist |-> dst(best), idx |-> best]>> \o knn(ix, x, cand \ {best}, k - 1)

search(ix, x, k) ==
    LET hits == knn(ix, x, 0..(ix.ntotal - 1), k)
    IN  [distances |-> [i \in 1..k |-> hits[i].dist],
         indices   |-> [i \in 1..k |-> hits[i].idx]]

\* ------------------------------------------------------------ persistence
Absent == [kind |-> "absent"]
\* documents.pkl right after open(..., "wb"): an empty file
Truncated == [kind |-> "truncated"]

\* faiss.write_index / faiss.read_index: header (d, ntotal) and raw codes
write_index(ix) == [kind |-> "faiss", d |-> ix.d, ntotal |-> ix.ntotal, codes |-> ix.xb]
read_index(file) ==
    [kind |-> "IndexFlatL2", d |-> file.d, ntotal |-> file.ntotal, xb |-> file.codes]

\* pickle.dump that loses the first record of the list
pickle_dump_lossy(docs) == [kind |-> "pickle", items |-> SubSeq(docs, 2, Len(docs))]

\* pickle.dump / pickle.load of the list of chunk records
pickle_dump(docs) == [kind |-> "pickle", items |-> docs]
pickle_load(file) == file.items

\* ------------------------------------------------------------- RAGSystem
\* process_documents: the chunks of every section, in section order, each
\* tagged with its section's title and page and its index in the section
\* process_documents numbering the chunks of a section from 1
ChunksOf_from_one(section) ==
    LET chunks == split_text(section.content)
    IN  [i \in 1..Len(chunks) |->
            [content       |-> chunks[i],
             section_title |-> section.section_title,
             page_number   |-> section.page_number,
             chunk_id      |-> <<section.section_title, i>>]]

ChunksOf(section) ==
    LET chunks == split_text(section.content)
    IN  [i \in 1..Len(chunks) |->
            [content       |-> chunks[i],
             section_title |-> section.section_title,
             page_number   |-> section.page_number,
             chunk_id      |-> <<section.section_title, i - 1>>]]

RECURSIVE AllChunks(_)
AllChunks(sections) ==
    IF sections = <<>> THEN <<>>
    ELSE ChunksOf(Head(sections)) \o AllChunks(Tail(sections))

\* documents[idx] as Python evaluates it: a negative idx counts from the end
PyItem(docs, idx) == IF idx < 0 THEN docs[Len(docs) + idx + 1] ELSE docs[idx + 1]

\* documents[idx] raises IndexError: idx is outside -len..len-1
PyIndexError(docs, idx) == idx >= Len(docs) \/ idx < 0 - Len(docs)

\* the loop of similarity_search over the slots the index search returned:
\* a slot passing the test idx < len(documents) is resolved, the others are
\* skipped
RECURSIVE Resolve(_, _, _, _)
Resolve(docs, distances, indices, i) ==
    IF i > Len(indices) THEN <<>>
    ELSE (IF indices[i] < Len(docs)
          THEN <<[content          |-> PyItem(docs, indices[i]).content,
                  section_title    |-> PyItem(docs, indices[i]).section_title,
                  page_number      |-> PyItem(docs, indices[i]).page_number,
                  chunk_id         |-> PyItem(docs, indices[i]).chunk_id,
                  similarity_score |-> distances[i]]>>
          ELSE <<>>)
         \o Resolve(docs, distances, indices, i + 1)

\* a name bound to the stored dict itself, without a copy
dict_alias(doc) == [shared |-> TRUE, items |-> doc]

\* self.documents[idx].copy(): a new dict with the same items; a write to it
\* does not reach the stored dict
dict_copy(doc) == [shared |-> FALSE, items |-> doc]

\* position in the list (1-based) of documents[idx]
PyPos(docs, idx) == IF idx < 0 THEN Len(docs) + idx + 1 ELSE idx + 1

\* self.documents after the loop of similarity_search: the assignment
\* doc["similarity_score"] = ... reaches a stored dict only when doc shares it;
\* the loop stops at a slot whose lookup raises
RECURSIVE ScoreWrites(_, _, _, _)
ScoreWrites(docs, distances, indices, i) ==
    IF i > Len(indices) THEN docs
    ELSE IF indices[i] < Len(docs)
         THEN IF PyIndexError(docs, indices[i]) THEN docs
              ELSE LET doc == dict_copy(PyItem(docs, indices[i]))
                       written == [similarity_score |-> distances[i]] @@ doc.items
                   IN  ScoreWrites(IF doc.shared
                                   THEN [docs EXCEPT ![PyPos(docs, indices[i])] = written]
                                   ELSE docs,
                                   distances, indices, i + 1)
         ELSE ScoreWrites(docs, distances, indices, i + 1)

\* self.documents after similarity_search(query, k)
documents_after_search(vs, docs, query, k) ==
    IF vs = None THEN docs
    ELSE LET hits == search(vs, encode(query), k)
         IN  ScoreWrites(docs, hits.distances, hits.indices, 1)

\* similarity_search(query, k) on a RAGSystem holding (vs, docs): what it
\* raises or returns
similarity_search(vs, docs, query, k) ==
    IF vs = None
    THEN [raised |-> "ValueError", value |-> <<>>]
    ELSE LET hits == search(vs, encode(query), k)
         IN  IF \E i \in 1..k : /\ hits.indices[i] < Len(docs)
                                /\ PyIndexError(docs, hits.indices[i])
             THEN [raised |-> "IndexError", value |-> <<>>]
             ELSE [raised |-> "", value |-> Resolve(docs, hits.distances, hits.indices, 1)]

\* ------------------------------------------------------------------ inputs
SecA1 == [section_title |-> "A", content |-> <<2>>, page_number |-> 1]
SecA2 == [section_title |-> "A", content |-> <<2, 1, 3>>, page_number |-> 1]
SecB1 == [section_title |-> "B", content |-> <<3>>, page_number |-> 2]

\* section lists handed to process_documents
SectionInputs == {<<>>, <<SecA1>>, <<SecA2>>, <<SecA2, SecB1>>}

\* every text of at most MaxWords words of at most MaxWord characters
Contents == UNION {[1..n -> 1..MaxWord] : n \in 1..MaxWords}

\* section lists for the splitter alone: one section of any text, or any two
\* sections of the lists above (the same title twice included)
ChunkerInputs ==
    {<<[section_title |-> "A", content |-> c, page_number |-> 1]>> : c \in Contents}
    \cup {<<s1, s2>> : s1 \in {SecA1, SecA2, SecB1}, s2 \in {SecA1, SecA2, SecB1}}

\* query texts
Queries == {<<3>>, <<1, 1>>}

\* values of k
KValues == (1..MaxSmallK) \cup {DefaultK}

\* the store directory before anything was saved
NoStore == [faiss_index |-> Absent, documents_pkl |-> Absent]

\* a store written from an index of zero vectors and an empty chunk list
EmptyStore ==
    [faiss_index |-> write_index(IndexFlatL2(Len(encode(<<>>)))),
     documents_pkl |-> pickle_dump(<<>>)]

\* what the store directory may hold when the process starts
InitialStores == {NoStore, EmptyStore}

\* --------------------------------------------------------- pdf_processor.py
\* A line of a page, after strip(): its words when it is body text, its text
\* when it is a title, and the three facts the heading test reads.
HeadingMaxLen == 100

Heading(title) ==
    [text |-> title, startsKeyword |-> TRUE, isupper |-> FALSE, length |-> 9, words |-> <<>>]

Body(words) ==
    [text |-> "", startsKeyword |-> FALSE, isupper |-> FALSE,
     length |-> SumSeq(words) + Len(words) - 1, words |-> words]

Blank ==
    [text |-> "", startsKeyword |-> FALSE, isupper |-> FALSE, length |-> 0, words |-> <<>>]

\* A token of a line: its number of characters, whether it has lower-case
\* and upper-case letters, and the marker word it starts with ("": none).
Token(chars, lower, upper, marker) ==
    [chars |-> chars, lower |-> lower, upper |-> upper, marker |-> marker]

Markers == {"Section", "Article", "Chapter"}

\* line.startswith(marker): the line is stripped, so it starts with the
\* marker exactly when its first token does
startswith(tokens, marker) == tokens # <<>> /\ tokens[1].marker = marker

\* line.isupper(): no lower-case letter and at least one upper-case letter
isupper(tokens) ==
    /\ \A i \in 1..Len(tokens) : ~tokens[i].lower
    /\ \E i \in 1..Len(tokens) : tokens[i].upper

\* len(line): the tokens and one blank between two of them
len(tokens) ==
    IF tokens = <<>> THEN 0
    ELSE SumSeq([i \in 1..Len(tokens) |-> tokens[i].chars]) + Len(tokens) - 1

\* the stripped line with these tokens; text names the line
Line(text, tokens) ==
    [text |-> text,
     startsKeyword |-> \E marker \in Markers : startswith(tokens, marker),
     isupper |-> isupper(tokens),
     length |-> len(tokens),
     words |-> [i \in 1..Len(tokens) |-> tokens[i].chars]]

\* tokens of the lines that probe the heading test
TSection == Token(7, TRUE, TRUE, "Section")
TArticle == Token(7, TRUE, TRUE, "Article")
TChapter == Token(7, TRUE, TRUE, "Chapter")
TSections == Token(8, TRUE, TRUE, "Section")
TSECTION == Token(7, FALSE, TRUE, "")
Tsection == Token(7, TRUE, FALSE, "")
TIPC == Token(3, FALSE, TRUE, "")
Ttheft == Token(5, TRUE, FALSE, "")
T302 == Token(3, FALSE, FALSE, "")
TUpperTo99 == Token(HeadingMaxLen - 5, FALSE, TRUE, "")
TUpperTo100 == Token(HeadingMaxLen - 4, FALSE, TRUE, "")
TUpperTo101 == Token(HeadingMaxLen - 3, FALSE, TRUE, "")

\* the file at pdf_path: whether os.path.exists finds it, whether fitz.open
\* opens it, its pages, and the page whose get_text raises (0: none)
PdfMissing == [exists |-> FALSE, opens |-> FALSE, pages |-> <<>>, bad |-> 0]
PdfUnopenable == [exists |-> TRUE, opens |-> FALSE, pages |-> <<>>, bad |-> 0]
PdfNoSections == [exists |-> TRUE, opens |-> TRUE, pages |-> << <<Body(<<2>>)>> >>, bad |-> 0]
PdfOne ==
    [exists |-> TRUE, opens |-> TRUE,
     pages |-> << <<Heading("A"), Body(<<2, 1>>), Blank, Body(<<3>>)>> >>, bad |-> 0]
PdfTwo ==
    [exists |-> TRUE, opens |-> TRUE,
     pages |-> << <<Heading("A"), Body(<<2, 1, 3>>)>>, <<Heading("B"), Body(<<3>>)>> >>,
     bad |-> 0]
PdfBadPage == [PdfTwo EXCEPT !.bad = 2]

Pdfs == {PdfMissing, PdfUnopenable, PdfNoSections, PdfOne, PdfTwo, PdfBadPage}

\* extract_text_by_pages that returns the pages read before the failure
extract_text_by_pages_partial(p) ==
    LET n == IF ~p.opens THEN 0
             ELSE IF p.bad \in 1..Len(p.pages) THEN p.bad - 1 ELSE Len(p.pages)
    IN  [raised |-> "",
         value  |-> [i \in 1..n |-> [page_number |-> i, content |-> p.pages[i]]]]

\* load_pdf swallows the failure of fitz.open and leaves document None, and
\* len(None) raises; a failing get_text raises out of the loop
extract_text_by_pages(p) ==
    IF ~p.opens THEN [raised |-> "TypeError", value |-> <<>>]
    ELSE IF p.bad \in 1..Len(p.pages) THEN [raised |-> "RuntimeError", value |-> <<>>]
    ELSE [raised |-> "",
          value  |-> [i \in 1..Len(p.pages) |-> [page_number |-> i, content |-> p.pages[i]]]]

\* the heading test without the length limit
IsHeading_any_upper(line) ==
    line.startsKeyword \/ line.isupper

IsHeading(line) ==
    line.startsKeyword \/ (line.isupper /\ line.length < HeadingMaxLen)

\* the lines of all pages in reading order, each with the number of its page
RECURSIVE PageLines(_)
PageLines(pages_data) ==
    IF pages_data = <<>> THEN <<>>
    ELSE LET page_data == Head(pages_data)
         IN  [i \in 1..Len(page_data.content) |->
                 [line |-> page_data.content[i], page_number |-> page_data.page_number]]
             \o PageLines(Tail(pages_data))

\* the loop of extract_sections from line i on, and the flush after it
RECURSIVE SectionLoop(_, _, _, _, _, _)
SectionLoop(lines, i, current_section, current_content, out, last_page) ==
    IF i > Len(lines)
    THEN IF current_section # "" /\ current_content # <<>>
         THEN Append(out, [section_title |-> current_section,
                           content |-> current_content,
                           page_number |-> last_page])
         ELSE out
    ELSE LET line == lines[i].line
         IN  IF line.length = 0
             THEN SectionLoop(lines, i + 1, current_section, current_content, out, last_page)
             ELSE IF IsHeading(line)
             THEN SectionLoop(lines, i + 1, line.text, <<>>,
                      IF current_section # "" /\ current_content # <<>>
                      THEN Append(out, [section_title |-> current_section,
                                        content |-> current_content,
                                        page_number |-> lines[i].page_number])
                      ELSE out,
                      last_page)
             ELSE SectionLoop(lines, i + 1, current_section,
                              current_content \o line.words, out, last_page)

\* extract_sections that opens a section for the text before the first heading
extract_sections_keep_preamble(p) ==
    LET r == extract_text_by_pages(p)
    IN  IF r.raised # "" THEN r
        ELSE [raised |-> "",
              value  |-> SectionLoop(PageLines(r.value), 1, "Preamble", <<>>, <<>>,
                                     IF r.value = <<>> THEN 1
                                     ELSE r.value[Len(r.value)].page_number)]

extract_sections(p) ==
    LET r == extract_text_by_pages(p)
    IN  IF r.raised # "" THEN r
        ELSE [raised |-> "",
              value  |-> SectionLoop(PageLines(r.value), 1, "", <<>>, <<>>,
                                     IF r.value = <<>> THEN 1
                                     ELSE r.value[Len(r.value)].page_number)]

\* ------------------------------------------------------ letter_generator.py
LetterK == 7
SupportingMax == 5

\* what self.llm.invoke may do
LlmOutcomes == {"ok", "error"}

\* generate_response: the message of the model, or the fixed string when the
\* call raised
generate_response(outcome) ==
    IF outcome = "ok"
    THEN [kind |-> "AIMessage", content |-> "response"]
    ELSE [kind |-> "str", content |-> "Error generating response"]

\* the content attribute of a message, a string as it is
extract_content(response) == response.content

\* the case fields a letter is generated from
Cases ==
    {[case_title |-> <<1>>, incident_summary |-> <<1>>, tags |-> <<>>],
     [case_title |-> <<2>>, incident_summary |-> <<1>>, tags |-> << <<3>> >>]}

search_query(case_data) ==
    case_data.case_title \o case_data.incident_summary \o Flatten(case_data.tags)

\* supporting_sections built from every retrieved document
supporting_sections_uncut(relevant_docs) ==
    [i \in 1..Len(relevant_docs) |->
        <<relevant_docs[i].section_title, relevant_docs[i].page_number>>]

\* "{section_title} (Page {page_number})" for doc in relevant_docs[:5]
supporting_sections(relevant_docs) ==
    [i \in 1..(IF Len(relevant_docs) < SupportingMax
               THEN Len(relevant_docs) ELSE SupportingMax) |->
        <<relevant_docs[i].section_title, relevant_docs[i].page_number>>]

format_letter(relevant_docs, llm) ==
    [formal_letter       |-> extract_content(generate_response(llm[1])),
     legal_arguments     |-> extract_content(generate_response(llm[2])),
     supporting_sections |-> supporting_sections(relevant_docs),
     relevant_documents  |-> relevant_docs]

\* no letter returned
NoLetter ==
    [formal_letter |-> "", legal_arguments |-> "", supporting_sections |-> <<>>,
     relevant_documents |-> <<>>]

\* a call made by generate_formal_letter on its RAGSystem
Call(fn, k, docs) == [fn |-> fn, k |-> k, docs |-> docs]

\* generation calls of which the second gets the supporting documents only
generation_calls_cut(relevant_docs) ==
    <<Call("generate_response", 0, relevant_docs),
      Call("generate_response", 0,
           SubSeq(relevant_docs, 1, Len(supporting_sections(relevant_docs))))>>

\* the letter call and the arguments call, each with context_docs
generation_calls(relevant_docs) ==
    <<Call("generate_response", 0, relevant_docs),
      Call("generate_response", 0, relevant_docs)>>

\* doc['content'][:500], scaled down as chunk_size is
BlockCap == 4

\* text[:n]: the words that fit, the last one cut where the n characters end
RECURSIVE TakeChars(_, _)
TakeChars(text, n) ==
    IF text = <<>> \/ n <= 0 THEN <<>>
    ELSE IF Head(text) >= n THEN <<n>>
    ELSE <<Head(text)>> \o TakeChars(Tail(text), n - Head(text) - 1)

\* len(text[:n])
TakeLen(text, n) == IF TextLen(text) < n THEN TextLen(text) ELSE n

\* the number of characters of a section title
TitleChars(title) ==
    IF title = "L" THEN len(<<TSection, TUpperTo100, TUpperTo100>>)
    ELSE Heading(title).length

\* len("Section: ") + len("\nContent: ") + len("...")
LabelChars == 9 + 10 + 3

\* _format_context: one block per doc, joined by "\n\n"; a block is the title,
\* the content cut at the cap, and its number of characters
format_context(docs) ==
    [i \in 1..Len(docs) |->
        [section_title |-> docs[i].section_title,
         content |-> TakeChars(docs[i].content, BlockCap),
         chars |-> LabelChars + TitleChars(docs[i].section_title)
                   + TakeLen(docs[i].content, BlockCap)]]

\* len of the joined string
ContextLen(blocks) ==
    IF blocks = <<>> THEN 0
    ELSE SumSeq([i \in 1..Len(blocks) |-> blocks[i].chars]) + 2 * (Len(blocks) - 1)

\* generate_formal_letter that goes on with no documents when the search raised
generate_formal_letter_fallback(vs, docs, case_data, llm) ==
    LET r == similarity_search(vs, docs, search_query(case_data), LetterK)
    IN  [raised |-> "", llm_calls |-> 2,
         calls |-> <<Call("similarity_search", LetterK, <<>>)>> \o generation_calls(r.value),
         value |-> format_letter(r.value, llm)]

\* generate_formal_letter on a generator whose RAGSystem holds (vs, docs):
\* what it raises or returns, and the number of generate_response calls made
generate_formal_letter(vs, docs, case_data, llm) ==
    LET r == similarity_search(vs, docs, search_query(case_data), LetterK)
    IN  IF r.raised # ""
        THEN [raised |-> r.raised, llm_calls |-> 0,
              calls |-> <<Call("similarity_search", LetterK, <<>>)>>,
              value |-> NoLetter]
        ELSE [raised |-> "", llm_calls |-> 2,
              calls |-> <<Call("similarity_search", LetterK, <<>>)>>
                        \o generation_calls(r.value),
              value |-> format_letter(r.value, llm)]

\* ------------------------------------------------------------------ main.py
MaxCases == 2

RAGSystem == [kind |-> "RAGSystem"]
LegalLetterGenerator == [kind |-> "LegalLetterGenerator"]

\* nothing done yet by initialize_rag_system
NoInit ==
    [loaded |-> FALSE, extract |-> "none", build |-> "none", error |-> "",
     saved |-> FALSE, steps |-> <<>>]

\* the log with one more call made by initialize_rag_system
Step(log, call) == [log EXCEPT !.steps = Append(@, call)]

\* no request answered yet
NoResponse ==
    [op |-> "", status |-> 0, detail |-> "", success |-> FALSE, searched |-> FALSE,
     search_raised |-> "", llm_calls |-> 0, llm_failed |-> FALSE, saved |-> FALSE,
     calls |-> <<>>, letter |-> NoLetter,
     rag_system_ready |-> FALSE, letter_generator_ready |-> FALSE, case_id |-> 0]

\* the answer of a handler
Response(op, status, detail) ==
    [NoResponse EXCEPT !.op = op, !.status = status, !.detail = detail]

\* ------------------------------------------------------------------- state
VARIABLES
    vector_store,   \* RAGSystem.vector_store: None or the flat index
    documents,      \* RAGSystem.documents: the list of chunk records
    faiss_index,    \* the file vector_store/faiss_index
    documents_pkl,  \* the file vector_store/documents.pkl
    pc,             \* position inside save_vector_store, "idle" outside it
    result,         \* what the last call raised or returned
    built,          \* history: a create or a load succeeded on this RAGSystem
    saveId,         \* history: number of save_vector_store calls that wrote
    indexSaveId,    \* history: the save that wrote faiss_index (0: none)
    docsSaveId,     \* history: the save that wrote documents.pkl (0: none)
    persisted,      \* history: (vector_store, documents) at the last completed save
    halfLoaded,     \* history: vector_store was assigned by a load that did not
                    \* assign documents, and neither was assigned since
    processed,      \* history: the sections given to the last process_documents
    rag_system,     \* main.rag_system: None or the RAGSystem above
    letter_generator, \* main.letter_generator: None or the LegalLetterGenerator
    startup,        \* position of the process: inside initialize_rag_system, or "serving"
    pdf,            \* the file at pdf_path
    init_sections,  \* initialize_rag_system's local sections: what extract_sections returned
    init_log,       \* history: what initialize_rag_system did in this process
    diskAtStart,    \* history: the two store files when this process started
    http,           \* the last response of generate_letter, with what the request did
    db              \* the cases collection: the records save_case inserted

\* the RAGSystem object and its store directory
core == <<vector_store, documents, faiss_index, documents_pkl, pc, result,
          built, saveId, indexSaveId, docsSaveId, persisted, halfLoaded, processed>>

\* the module globals of main.py, the PDF and the database
service == <<rag_system, letter_generator, startup, pdf, init_sections, init_log,
             diskAtStart, http, db>>

vars == <<core, service>>

disk == <<faiss_index, documents_pkl, indexSaveId, docsSaveId>>
history == <<saveId, persisted>>

\* ret: the printed return value of a call that returns no list
NoResult == [op |-> "none", raised |-> "", ret |-> "", value |-> <<>>, query |-> <<>>, k |-> 0]

Returned(op, r) == [NoResult EXCEPT !.op = op, !.ret = r]
Raised(op, e) == [NoResult EXCEPT !.op = op, !.raised = e]

InitRag(st) ==
    /\ vector_store = None
    /\ documents = <<>>
    /\ faiss_index = st.faiss_index
    /\ documents_pkl = st.documents_pkl
    /\ pc = "idle"
    /\ result = NoResult
    /\ built = FALSE
    /\ saveId = 0
    /\ indexSaveId = 0
    /\ docsSaveId = 0
    /\ persisted = [vector_store |-> None, documents |-> <<>>]
    /\ halfLoaded = FALSE
    /\ processed = <<>>

\* the process has started and initialize_rag_system has not run yet
ServiceStart(st, p) ==
    /\ rag_system = None
    /\ letter_generator = None
    /\ startup = "new"
    /\ pdf = p
    /\ init_sections = <<>>
    /\ init_log = NoInit
    /\ diskAtStart = <<st.faiss_index, st.documents_pkl>>
    /\ http = NoResponse
    /\ db = <<>>

InitWith(st) == InitRag(st) /\ ServiceStart(st, PdfMissing)

\* the process starts with no store directory
Init == InitWith(NoStore)

\* the process starts with a store directory that may have been provisioned
InitProvisioned == \E st \in InitialStores : InitWith(st)

\* RAGSystem(): a new object in a running or restarted process
RAGSystem_init ==
    /\ pc = "idle"
    /\ vector_store' = None
    /\ documents' = <<>>
    /\ built' = FALSE
    /\ halfLoaded' = FALSE
    /\ processed' = <<>>
    /\ result' = NoResult
    /\ UNCHANGED <<pc, disk, history>>

process_documents(sections) ==
    /\ pc = "idle"
    /\ documents' = AllChunks(sections)
    /\ result' = [NoResult EXCEPT !.op = "process_documents", !.value = AllChunks(sections)]
    /\ halfLoaded' = FALSE
    /\ processed' = sections
    /\ UNCHANGED <<vector_store, pc, built, disk, history>>

\* create_vector_store without the test for an empty documents list
create_vector_store_unguarded ==
    /\ pc = "idle"
    /\ vector_store' = add(IndexFlatL2(Len(encode(<<>>))),
                           encode_batch([i \in 1..Len(documents) |-> documents[i].content]))
    /\ built' = TRUE
    /\ halfLoaded' = FALSE
    /\ result' = Returned("create_vector_store", "None")
    /\ UNCHANGED <<documents, processed, pc, disk, history>>

create_vector_store ==
    /\ pc = "idle"
    /\ IF documents = <<>>
       THEN /\ result' = Raised("create_vector_store", "ValueError")
            /\ UNCHANGED <<vector_store, built, halfLoaded>>
       ELSE LET texts      == [i \in 1..Len(documents) |-> documents[i].content]
                embeddings == encode_batch(texts)
                dimension  == Len(embeddings[1])
            IN  /\ vector_store' = add(IndexFlatL2(dimension), embeddings)
                /\ built' = TRUE
                /\ halfLoaded' = FALSE
                /\ result' = Returned("create_vector_store", "None")
    /\ UNCHANGED <<documents, processed, pc, disk, history>>

\* save_vector_store, step 1: os.makedirs and faiss.write_index
save_write_index ==
    /\ pc = "idle"
    /\ saveId < MaxSaves
    /\ IF vector_store = None
       THEN /\ result' = Raised("save_vector_store", "TypeError")
            /\ UNCHANGED <<pc, faiss_index, indexSaveId, saveId>>
       ELSE /\ faiss_index' = write_index(vector_store)
            /\ saveId' = saveId + 1
            /\ indexSaveId' = saveId + 1
            /\ pc' = "save_open"
            /\ result' = Returned("save_vector_store", "running")
    /\ UNCHANGED <<vector_store, documents, built, halfLoaded, processed, documents_pkl, docsSaveId, persisted>>

\* save_vector_store, step 2: open(documents.pkl, "wb") empties the file
save_open_documents ==
    /\ pc = "save_open"
    /\ documents_pkl' = Truncated
    /\ docsSaveId' = saveId
    /\ pc' = "save_dump"
    /\ UNCHANGED <<vector_store, documents, built, halfLoaded, processed, result, faiss_index, indexSaveId, history>>

\* save_vector_store, step 3: pickle.dump and close
save_dump_documents ==
    /\ pc = "save_dump"
    /\ documents_pkl' = pickle_dump(documents)
    /\ persisted' = [vector_store |-> vector_store, documents |-> documents]
    /\ pc' = "idle"
    /\ result' = Returned("save_vector_store", "None")
    /\ UNCHANGED <<vector_store, documents, built, halfLoaded, processed, faiss_index, indexSaveId, docsSaveId, saveId>>

\* the process is stopped inside save_vector_store; the next process starts
\* with a new RAGSystem and finds the files as they were left
Interrupt ==
    /\ pc # "idle"
    /\ pc' = "idle"
    /\ vector_store' = None
    /\ documents' = <<>>
    /\ built' = FALSE
    /\ halfLoaded' = FALSE
    /\ processed' = <<>>
    /\ result' = NoResult
    /\ UNCHANGED <<disk, history>>

load_vector_store ==
    /\ pc = "idle"
    /\ IF faiss_index = Absent
       THEN \* read_index raises: nothing assigned
            /\ result' = Returned("load_vector_store", "False")
            /\ UNCHANGED <<vector_store, documents, built, halfLoaded>>
       ELSE /\ vector_store' = read_index(faiss_index)
            /\ IF documents_pkl.kind = "pickle"
               THEN /\ documents' = pickle_load(documents_pkl)
                    /\ built' = TRUE
                    /\ halfLoaded' = FALSE
                    /\ result' = Returned("load_vector_store", "True")
               ELSE \* open or pickle.load raises after the index was assigned
                    /\ result' = Returned("load_vector_store", "False")
                    /\ halfLoaded' = TRUE
                    /\ UNCHANGED <<documents, built>>
    /\ UNCHANGED <<processed, pc, disk, history>>

do_similarity_search(query, k) ==
    /\ pc = "idle"
    /\ LET r == similarity_search(vector_store, documents, query, k)
       IN  result' = [op |-> "similarity_search", raised |-> r.raised, ret |-> "",
                      value |-> r.value, query |-> query, k |-> k]
    /\ documents' = documents_after_search(vector_store, documents, query, k)
    /\ UNCHANGED <<vector_store, pc, built, halfLoaded, processed, disk, history>>

\* any caller of the RAGSystem alone: the service is left as it is
Next ==
    \/ RAGSystem_init /\ UNCHANGED service
    \/ \E secs \in SectionInputs : process_documents(secs) /\ UNCHANGED service
    \/ create_vector_store /\ UNCHANGED service
    \/ save_write_index /\ UNCHANGED service
    \/ save_open_documents /\ UNCHANGED service
    \/ save_dump_documents /\ UNCHANGED service
    \/ Interrupt /\ UNCHANGED service
    \/ load_vector_store /\ UNCHANGED service
    \/ \E query \in Queries, k \in KValues :
           do_similarity_search(query, k) /\ UNCHANGED service

Spec == Init /\ [][Next]_vars

SpecProvisioned == InitProvisioned /\ [][Next]_vars

\* the splitter alone: process_documents on every bounded section list
NextChunker ==
    \E secs \in ChunkerInputs : process_documents(secs) /\ UNCHANGED service

SpecChunker == Init /\ [][NextChunker]_vars

\* ------------------------------------------------- main.py: the service
\* the except clause of initialize_rag_system: the error is logged and the
\* startup goes on to serve
init_except(e, log) ==
    /\ startup' = "serving"
    /\ init_log' = [log EXCEPT !.error = e,
                        !.build = IF log.build = "running" THEN "aborted" ELSE @]

\* rag_system = RAGSystem()
init_new ==
    /\ startup = "new"
    /\ RAGSystem_init
    /\ rag_system' = RAGSystem
    /\ startup' = "load"
    /\ UNCHANGED <<letter_generator, pdf, init_sections, init_log, diskAtStart, http, db>>

\* initialize_rag_system that builds whatever load_vector_store returned
init_load_then_build ==
    /\ startup = "load"
    /\ load_vector_store
    /\ startup' = "exists"
    /\ init_log' = Step([init_log EXCEPT !.loaded = (result'.ret = "True")],
                        "load_vector_store")
    /\ UNCHANGED <<rag_system, letter_generator, pdf, init_sections, diskAtStart, http, db>>

\* if not rag_system.load_vector_store()
init_load ==
    /\ startup = "load"
    /\ load_vector_store
    /\ IF result'.ret = "True"
       THEN /\ startup' = "assign"
            /\ init_log' = Step([init_log EXCEPT !.loaded = TRUE], "load_vector_store")
       ELSE /\ startup' = "exists"
            /\ init_log' = Step(init_log, "load_vector_store")
    /\ UNCHANGED <<rag_system, letter_generator, pdf, init_sections, diskAtStart, http, db>>

\* initialize_rag_system that goes on to the last line when the PDF is missing
init_exists_fallthrough ==
    /\ startup = "exists"
    /\ startup' = IF pdf.exists THEN "extract" ELSE "assign"
    /\ init_log' = [init_log EXCEPT !.build = IF pdf.exists THEN "running" ELSE @]
    /\ UNCHANGED <<core, rag_system, letter_generator, pdf, init_sections, diskAtStart, http, db>>

\* if not os.path.exists(pdf_path): return
init_exists ==
    /\ startup = "exists"
    /\ startup' = IF pdf.exists THEN "extract" ELSE "serving"
    /\ init_log' = [init_log EXCEPT !.build = IF pdf.exists THEN "running" ELSE @]
    /\ UNCHANGED <<core, rag_system, letter_generator, pdf, init_sections, diskAtStart, http, db>>

\* sections = processor.extract_sections(); processor.close()
init_extract ==
    /\ startup = "extract"
    /\ LET r == extract_sections(pdf)
       IN  IF r.raised # ""
           THEN /\ init_except(r.raised, Step([init_log EXCEPT !.extract = "raised"],
                                               "extract_sections"))
                /\ UNCHANGED init_sections
           ELSE /\ init_sections' = r.value
                /\ startup' = "process"
                /\ init_log' = Step([init_log EXCEPT !.extract = "returned"],
                                    "extract_sections")
    /\ UNCHANGED <<core, rag_system, letter_generator, pdf, diskAtStart, http, db>>

\* rag_system.process_documents(sections)
init_process ==
    /\ startup = "process"
    /\ process_documents(init_sections)
    /\ startup' = "create"
    /\ init_log' = Step(init_log, "process_documents")
    /\ UNCHANGED <<rag_system, letter_generator, pdf, init_sections, diskAtStart, http, db>>

\* rag_system.create_vector_store()
init_create ==
    /\ startup = "create"
    /\ create_vector_store
    /\ IF result'.raised # ""
       THEN init_except(result'.raised, Step(init_log, "create_vector_store"))
       ELSE /\ startup' = "save"
            /\ init_log' = Step(init_log, "create_vector_store")
    /\ UNCHANGED <<rag_system, letter_generator, pdf, init_sections, diskAtStart, http, db>>

\* rag_system.save_vector_store(), its three steps
init_save_write_index ==
    /\ startup = "save"
    /\ save_write_index
    /\ IF result'.raised # ""
       THEN init_except(result'.raised, Step(init_log, "save_vector_store"))
       ELSE /\ init_log' = Step(init_log, "save_vector_store")
            /\ UNCHANGED startup
    /\ UNCHANGED <<rag_system, letter_generator, pdf, init_sections, diskAtStart, http, db>>

init_save_open_documents ==
    /\ startup = "save"
    /\ save_open_documents
    /\ UNCHANGED service

init_save_dump_documents ==
    /\ startup = "save"
    /\ save_dump_documents
    /\ startup' = "assign"
    /\ init_log' = [init_log EXCEPT !.build = "complete", !.saved = TRUE]
    /\ UNCHANGED <<rag_system, letter_generator, pdf, init_sections, diskAtStart, http, db>>

\* letter_generator = LegalLetterGenerator(rag_system)
init_assign ==
    /\ startup = "assign"
    /\ letter_generator' = LegalLetterGenerator
    /\ startup' = "serving"
    /\ UNCHANGED <<core, rag_system, pdf, init_sections, init_log, diskAtStart, http, db>>

\* the try block of generate_letter
generate_letter_try(case_input, llm) ==
    IF letter_generator = None
    THEN \* None has no generate_formal_letter
         /\ http' = Response("generate_letter", 500, "AttributeError")
         /\ UNCHANGED <<core, db>>
    ELSE LET g == generate_formal_letter(vector_store, documents, case_input, llm)
         IN  /\ do_similarity_search(search_query(case_input), LetterK)
             /\ IF g.raised # ""
                THEN /\ http' = [Response("generate_letter", 500, g.raised) EXCEPT
                                     !.searched = TRUE,
                                     !.search_raised = result'.raised,
                                     !.llm_calls = g.llm_calls,
                                     !.calls = g.calls]
                     /\ UNCHANGED db
                ELSE /\ db' = Append(db, [case_title      |-> case_input.case_title,
                                          formal_letter   |-> g.value.formal_letter,
                                          legal_arguments |-> g.value.legal_arguments])
                     /\ http' = [Response("generate_letter", 200,
                                          "Letter generated successfully") EXCEPT
                                     !.success = TRUE,
                                     !.searched = TRUE,
                                     !.search_raised = result'.raised,
                                     !.llm_calls = g.llm_calls,
                                     !.llm_failed = \E i \in 1..2 : llm[i] = "error",
                                     !.saved = TRUE,
                                     !.calls = g.calls,
                                     !.letter = g.value]

\* generate_letter without the test of the two globals
generate_letter_unguarded(case_input, llm) ==
    /\ startup = "serving"
    /\ Len(db) < MaxCases
    /\ generate_letter_try(case_input, llm)
    /\ UNCHANGED <<rag_system, letter_generator, startup, pdf, init_sections, init_log, diskAtStart>>

\* POST /generate-letter, served once the lifespan startup has finished
generate_letter(case_input, llm) ==
    /\ startup = "serving"
    /\ Len(db) < MaxCases
    /\ IF rag_system = None \/ letter_generator = None
       THEN /\ http' = Response("generate_letter", 503, "RAG system not initialized")
            /\ UNCHANGED <<core, db>>
       ELSE generate_letter_try(case_input, llm)
    /\ UNCHANGED <<rag_system, letter_generator, startup, pdf, init_sections, init_log, diskAtStart>>

\* GET /health
health_check ==
    /\ startup = "serving"
    /\ http' = [Response("health_check", 200, "healthy") EXCEPT
                    !.rag_system_ready = (rag_system # None),
                    !.letter_generator_ready = (letter_generator # None)]
    /\ UNCHANGED <<core, rag_system, letter_generator, startup, pdf, init_sections,
                   init_log, diskAtStart, db>>

\* database.get_case: the record with this id, or None; ids are the
\* positions of the records
get_case(cases, case_id) ==
    IF case_id \in 1..Len(cases) THEN cases[case_id] ELSE None

\* "except Exception" around a handler body: every exception raised in the
\* body, an HTTPException included, becomes the answer 500
except_Exception(op, body) ==
    IF body.raised # "" THEN Response(op, 500, body.detail) ELSE body.response

\* get_case_details whose 404 is raised outside the try block
get_case_details_reraise(case_id) ==
    /\ startup = "serving"
    /\ LET case == get_case(db, case_id)
       IN  http' = IF case = None
                   THEN [Response("get_case_details", 404, "Case not found") EXCEPT
                            !.case_id = case_id]
                   ELSE [Response("get_case_details", 200, "") EXCEPT
                            !.case_id = case_id]
    /\ UNCHANGED <<core, rag_system, letter_generator, startup, pdf, init_sections,
                   init_log, diskAtStart, db>>

\* GET /case/{case_id}
get_case_details(case_id) ==
    /\ startup = "serving"
    /\ LET case == get_case(db, case_id)
           body == IF case = None
                   THEN [raised |-> "HTTPException", detail |-> "404: Case not found",
                         response |-> NoResponse]
                   ELSE [raised |-> "", detail |-> "",
                         response |-> Response("get_case_details", 200, "")]
       IN  http' = [except_Exception("get_case_details", body) EXCEPT !.case_id = case_id]
    /\ UNCHANGED <<core, rag_system, letter_generator, startup, pdf, init_sections,
                   init_log, diskAtStart, db>>

\* POST /export-pdf/{case_id}
export_case_pdf(case_id) ==
    /\ startup = "serving"
    /\ LET case == get_case(db, case_id)
           body == IF case = None
                   THEN [raised |-> "HTTPException", detail |-> "404: Case not found",
                         response |-> NoResponse]
                   ELSE IF letter_generator = None
                   THEN [raised |-> "AttributeError", detail |-> "AttributeError",
                         response |-> NoResponse]
                   ELSE [raised |-> "", detail |-> "",
                         response |-> [Response("export_case_pdf", 200, "") EXCEPT
                                          !.success = TRUE]]
       IN  http' = [except_Exception("export_case_pdf", body) EXCEPT !.case_id = case_id]
    /\ UNCHANGED <<core, rag_system, letter_generator, startup, pdf, init_sections,
                   init_log, diskAtStart, db>>

\* the ids a request may name: those of the records and one more
CaseIds == 1..(MaxCases + 1)

\* the process is stopped at any point and started again: the globals and
\* the RAGSystem are gone, the files and the database are as they were left
Restart ==
    /\ vector_store' = None
    /\ documents' = <<>>
    /\ pc' = "idle"
    /\ built' = FALSE
    /\ halfLoaded' = FALSE
    /\ processed' = <<>>
    /\ result' = NoResult
    /\ rag_system' = None
    /\ letter_generator' = None
    /\ startup' = "new"
    /\ pdf' \in Pdfs
    /\ init_sections' = <<>>
    /\ init_log' = NoInit
    /\ diskAtStart' = <<faiss_index, documents_pkl>>
    /\ http' = NoResponse
    /\ UNCHANGED <<disk, history, db>>

InitService ==
    \E st \in InitialStores, p \in Pdfs : InitRag(st) /\ ServiceStart(st, p)

NextService ==
    \/ init_new
    \/ init_load
    \/ init_exists
    \/ init_extract
    \/ init_process
    \/ init_create
    \/ init_save_write_index
    \/ init_save_open_documents
    \/ init_save_dump_documents
    \/ init_assign
    \/ \E case_input \in Cases, llm \in [1..2 -> LlmOutcomes] : generate_letter(case_input, llm)
    \/ health_check
    \/ \E case_id \in CaseIds : get_case_details(case_id)
    \/ \E case_id \in CaseIds : export_case_pdf(case_id)
    \/ Restart

SpecService == InitService /\ [][NextService]_vars

\* ------------------------------------------ the section extractor alone
MaxLines == 4

\* the lines a bounded document is made of
LineKinds == {Heading("A"), Heading("B"), Body(<<2>>), Body(<<1>>), Blank}

ProbeTokens ==
    {<<TSection, T302>>, <<TArticle>>, <<TChapter, TIPC>>, <<TSections>>,
     <<TSection, TUpperTo100, TUpperTo100>>, <<TSECTION, T302>>, <<Tsection, T302>>,
     <<TIPC>>, <<TIPC, TUpperTo99>>, <<TIPC, TUpperTo100>>, <<TIPC, TUpperTo101>>,
     <<T302>>, <<TIPC, Ttheft>>, <<Ttheft, TSection>>, <<Ttheft>>}

\* a readable PDF with these pages
PdfOf(pages) == [exists |-> TRUE, opens |-> TRUE, pages |-> pages, bad |-> 0]

\* a section "A" with a body line, the probed line, and one more body line
ProbePdf(tokens) ==
    PdfOf(<< <<Heading("A"), Body(<<2>>), Line("L", tokens), Body(<<3>>)>> >>)

\* every document of at most MaxLines lines, on one page or cut into two
ExtractorPdfs ==
    {PdfOf(<<lines>>) : lines \in UNION {[1..n -> LineKinds] : n \in 1..MaxLines}}
    \cup UNION {{PdfOf(<<SubSeq(lines, 1, cut), SubSeq(lines, cut + 1, Len(lines))>>) :
                    cut \in 1..(Len(lines) - 1)} :
                lines \in UNION {[1..n -> LineKinds] : n \in 2..MaxLines}}
    \cup {ProbePdf(tokens) : tokens \in ProbeTokens}

\* PDFProcessor(pdf_path).extract_sections() on one of the documents, once
call_extract_sections(p) ==
    /\ init_log.extract = "none"
    /\ pdf' = p
    /\ LET r == extract_sections(p)
       IN  /\ init_sections' = r.value
           /\ init_log' = [NoInit EXCEPT !.extract = IF r.raised # "" THEN "raised"
                                                     ELSE "returned",
                                         !.error = r.raised]
    /\ UNCHANGED <<core, rag_system, letter_generator, startup, diskAtStart, http, db>>

NextExtractor == \E p \in ExtractorPdfs : call_extract_sections(p)

SpecExtractor == Init /\ [][NextExtractor]_vars

\* ------------------------------------------- the context formatter alone
\* retrieval results: a short or a long title, a content below or above the cap
ContextDocs ==
    {[content |-> c, section_title |-> title, page_number |-> 1,
      chunk_id |-> title, similarity_score |-> 0] :
        c \in {<<2>>, <<3, 3>>}, title \in {"A", "L"}}

\* every list of at most LetterK retrieval results
ContextInputs == UNION {[1..n -> ContextDocs] : n \in 0..LetterK}

\* self._format_context(relevant_docs), once; query holds the argument
call_format_context(docs) ==
    /\ result = NoResult
    /\ result' = [NoResult EXCEPT !.op = "_format_context",
                                  !.query = docs,
                                  !.value = format_context(docs)]
    /\ UNCHANGED <<vector_store, documents, pc, built, halfLoaded, processed, disk,
                   history, service>>

NextContext == \E docs \in ContextInputs : call_format_context(docs)

SpecContext == Init /\ [][NextContext]_vars

\* ================================================================== claims
\* the index and the chunk list are aligned: as many vectors as chunks, and
\* slot i holds the embedding of chunk i
Aligned(vs, docs) ==
    /\ vs # None
    /\ vs.ntotal = Len(docs)
    /\ \A i \in 1..Len(docs) : reconstruct(vs, i - 1) = encode(docs[i].content)

IsSearch == result.op = "similarity_search"
IsLoad == result.op = "load_vector_store"

\* C1: once a create_vector_store or a load_vector_store has succeeded, the
\* number of vectors in vector_store equals len(documents) and slot i holds
\* the vector of documents[i], whatever RAGSystem operations follow.
C1_IndexAlignedWithDocuments == built => Aligned(vector_store, documents)

\* C2: when faiss_index and documents.pkl, both written by save_vector_store,
\* hold different numbers of entries, load_vector_store reports failure; it
\* never completes as a successful load.
C2_MismatchedArtifactsRejected ==
    (/\ IsLoad
     /\ indexSaveId > 0
     /\ docsSaveId > 0
     /\ faiss_index.kind = "faiss"
     /\ documents_pkl.kind = "pickle"
     /\ faiss_index.ntotal # Len(documents_pkl.items))
    => result.ret = "False"

\* C3: a load_vector_store that fails leaves vector_store and documents both
\* as they were before the call.
C3_FailedLoadLeavesStateUnchanged ==
    [][(load_vector_store /\ result'.ret = "False")
       => (vector_store' = vector_store /\ documents' = documents)]_vars

\* C4: a load_vector_store never succeeds with the index written by one
\* save_vector_store and the documents written by a different one, also when
\* a save was interrupted between its two writes over a previously saved store.
C4_LoadNeverMixesSaves ==
    (IsLoad /\ result.ret = "True" /\ indexSaveId > 0 /\ docsSaveId > 0)
    => indexSaveId = docsSaveId

C6_ClampToCorpusSize ==
    (/\ IsSearch
     /\ Aligned(vector_store, documents)
     /\ Len(documents) >= 1
     /\ result.k > Len(documents))
    => /\ result.raised = ""
       /\ Len(result.value) = Len(documents)
       /\ \A i, j \in 1..Len(result.value) :
             i # j => result.value[i].chunk_id # result.value[j].chunk_id
       /\ \A i \in 1..Len(result.value) : result.value[i].similarity_score # FLT_MAX

\* C7: in every state with at least k chunks in documents, a similarity_search
\* that returns returns exactly k results.
C7_ExactlyKWhenEnoughChunks ==
    (IsSearch /\ result.raised = "" /\ Len(documents) >= result.k)
    => Len(result.value) = result.k

\* C8: the list returned by similarity_search is in non-decreasing
\* similarity_score order, every score is >= 0, and each result's score is the
\* distance between the query and the chunk it is attached to.
C8_AscendingTrueDistances ==
    (IsSearch /\ result.raised = "")
    => /\ \A i \in 1..Len(result.value) :
             /\ result.value[i].similarity_score >= 0
             /\ result.value[i].similarity_score
                  = L2(encode(result.query), encode(result.value[i].content))
       /\ \A i \in 1..(Len(result.value) - 1) :
             result.value[i].similarity_score <= result.value[i + 1].similarity_score

\* C9: similarity_search fails, returning no result list, whenever no create
\* and no load has succeeded on the RAGSystem, also after a failed load.
C9_SearchBeforeBuildFails ==
    (IsSearch /\ ~built) => result.raised # ""

C11_OutOfRangeSlotRaises ==
    (/\ IsSearch
     /\ vector_store # None
     /\ \E i \in 1..result.k :
           search(vector_store, encode(result.query), result.k).indices[i] >= Len(documents))
    => result.raised = "IndexError"

\* C15: create_vector_store on an empty documents list fails with the build
\* error and leaves vector_store as it was.
C15_CreateRejectsZeroChunks ==
    [][(create_vector_store /\ documents = <<>>)
       => (result'.raised = "ValueError" /\ vector_store' = vector_store)]_vars

\* a create_vector_store has just failed on an empty documents list while an
\* index built earlier was in place, and the index is still there
C15_Witness ==
    /\ result.op = "create_vector_store"
    /\ result.raised = "ValueError"
    /\ documents = <<>>
    /\ vector_store # None
    /\ vector_store.ntotal >= 1

\* C17: a similarity_search never runs on a vector_store that a load has
\* assigned together with documents that this load has not assigned.
C17_SearchNeverSeesHalfLoad == IsSearch => ~halfLoaded

\* C18: similarity_search leaves vector_store and every record of documents
\* unchanged; the scores are attached to copies.
C18_SearchReadOnly ==
    [][(\E query \in Queries, k \in KValues : do_similarity_search(query, k))
       => (vector_store' = vector_store /\ documents' = documents)]_vars

\* a search has just returned scored results and no stored chunk has a
\* similarity_score field
C18_Witness ==
    /\ IsSearch
    /\ result.raised = ""
    /\ Len(result.value) >= 2
    /\ \A i \in 1..Len(result.value) : "similarity_score" \in DOMAIN result.value[i]
    /\ \A i \in 1..Len(documents) : "similarity_score" \notin DOMAIN documents[i]

IsProcess == result.op = "process_documents"

\* the chunks stored for the sections before section number s
RECURSIVE ChunksBefore(_, _)
ChunksBefore(sections, s) ==
    IF s <= 1 THEN 0
    ELSE ChunksBefore(sections, s - 1) + Len(split_text(sections[s - 1].content))

\* every stored chunk is non-empty and at most chunk_size characters long, and
\* the chunks of every section are the texts of its spans
ChunksBounded ==
    /\ \A i \in 1..Len(documents) :
          /\ documents[i].content # <<>>
          /\ TextLen(documents[i].content) <= ChunkSize
    /\ \A s \in 1..Len(processed) :
          LET c  == processed[s].content
              sp == split_spans(c)
          IN  /\ Len(sp) = Len(split_text(c))
              /\ \A j \in 1..Len(sp) :
                    documents[ChunksBefore(processed, s) + j].content
                      = SubSeq(c, sp[j].first, sp[j].last)

C20_GroupedBySection ==
    IsProcess =>
       /\ Len(documents) = ChunksBefore(processed, Len(processed) + 1)
       /\ \A s \in 1..Len(processed) :
             LET chunks == split_text(processed[s].content)
             IN  \A j \in 1..Len(chunks) :
                    LET doc == documents[ChunksBefore(processed, s) + j]
                    IN  /\ doc.content = chunks[j]
                        /\ doc.section_title = processed[s].section_title
                        /\ doc.page_number = processed[s].page_number
                        /\ doc.chunk_id = <<processed[s].section_title, j - 1>>

\* two sections have just been processed, the first into two chunks: the index
\* restarts at 0 for the second section
C20_Witness ==
    /\ IsProcess
    /\ Len(processed) = 2
    /\ Len(documents) = 3
    /\ documents[2].chunk_id[2] = 1
    /\ documents[3].chunk_id[2] = 0
    /\ documents[3].page_number # documents[2].page_number

\* ------------------------------------------------------- service claims
\* C12: when similarity_search raised inside generate_formal_letter, the
\* request made no generate_response call, saved no record and ended in an
\* error response.
C12_RetrievalFailureSurfaced ==
    (http.searched /\ http.search_raised # "") =>
        /\ http.llm_calls = 0
        /\ ~http.saved
        /\ ~http.success
        /\ http.status = 500

\* a request whose search raised has been answered
C12_Witness ==
    /\ http.searched
    /\ http.search_raised = "IndexError"
    /\ http.status = 500
    /\ letter_generator # None

\* C13: a generate-letter request in which the text-generation call failed
\* does not report success and does not save a letter.
C13_GenerationFailureSurfaced ==
    http.llm_failed => (~http.success /\ ~http.saved)

\* the PDF exists and cannot be opened, or one of its pages cannot be read
Unreadable(p) == p.exists /\ (~p.opens \/ p.bad \in 1..Len(p.pages))

\* C14: when the PDF cannot be opened or read, extract_sections raises, the
\* build is aborted, save_vector_store is not reached and the store files are
\* the ones the process found.
C14_UnreadableSourceAbortsBuild ==
    (Unreadable(pdf) /\ init_log.extract # "none") =>
        /\ init_log.extract = "raised"
        /\ init_log.build = "aborted"
        /\ init_log.error # ""
        /\ ~init_log.saved
        /\ pc = "idle"
        /\ <<faiss_index, documents_pkl>> = diskAtStart
        /\ letter_generator = None

\* the startup has ended on a PDF whose second page cannot be read
C14_Witness ==
    /\ pdf = PdfBadPage
    /\ init_log.extract = "raised"
    /\ init_log.build = "aborted"
    /\ startup = "serving"

\* C16: a generate-letter request reaches similarity_search only after
\* initialize_rag_system has finished, and only on a RAGSystem that was loaded
\* or whose build ran to its end in this process; the index it searches holds
\* one vector per document, the vector of that document.
C16_NoQueryOnBuildInProgress ==
    http.searched =>
        /\ startup = "serving"
        /\ letter_generator # None
        /\ init_log.loaded \/ init_log.build = "complete"
        /\ init_log.build \notin {"running", "aborted"}
        /\ Aligned(vector_store, documents)

\* a request has searched the RAGSystem built in this process
C16_Witness ==
    /\ http.searched
    /\ init_log.build = "complete"
    /\ http.status = 200

\* ----------------------------------------------------- extractor claims
\* the non-blank lines of the document read, each with its page
ReadLines ==
    SelectSeq(PageLines(extract_text_by_pages(pdf).value), LAMBDA l : l.line.length > 0)

\* the positions of the headings among these lines
Heads(ls) == {i \in 1..Len(ls) : IsHeading(ls[i].line)}

\* the heading after position h, or the end of the input
NextHead(ls, h) ==
    IF \E i \in Heads(ls) : i > h
    THEN CHOOSE i \in Heads(ls) : i > h /\ \A j \in Heads(ls) : j > h => i <= j
    ELSE Len(ls) + 1

\* the headings followed by body text
Emitting(ls) == {h \in Heads(ls) : NextHead(ls, h) > h + 1}

\* the k-th position of a set of positions
Nth(S, k) == CHOOSE i \in S : Cardinality({j \in S : j < i}) = k - 1

\* the body lines between heading h and the next heading, joined
BodyOf(ls, h) == Flatten([j \in 1..(NextHead(ls, h) - 1 - h) |-> ls[h + j].line.words])

IsExtract == init_log.extract = "returned"

\* C21: a section whose heading and whose next heading are on different
\* pages carries the page of its own heading as page_number.
C21_PageOfOwnHeading ==
    IsExtract =>
        LET ls == ReadLines
        IN  \A k \in 1..Len(init_sections) :
                LET h == Nth(Emitting(ls), k)
                IN  (/\ NextHead(ls, h) <= Len(ls)
                     /\ ls[NextHead(ls, h)].page_number # ls[h].page_number)
                    => init_sections[k].page_number = ls[h].page_number

\* C22: extract_sections emits one section for every heading that is
\* followed by body text before the next heading or the end, in order, with
\* that heading as title and that body text as content, and nothing else:
\* text before the first heading and headings without body give no section.
C22_EmitsClosedSectionsOnly ==
    IsExtract =>
        LET ls == ReadLines
        IN  /\ Len(init_sections) = Cardinality(Emitting(ls))
            /\ \A k \in 1..Len(init_sections) :
                   LET h == Nth(Emitting(ls), k)
                   IN  /\ init_sections[k].section_title = ls[h].line.text
                       /\ init_sections[k].content = BodyOf(ls, h)
                       /\ init_sections[k].section_title # ""
                       /\ init_sections[k].content # <<>>

\* text before the first heading, a heading followed at once by a heading,
\* and one section emitted at the end of the input
C22_Witness ==
    /\ IsExtract
    /\ pdf = PdfOf(<< <<Body(<<2>>), Heading("A"), Heading("B"), Body(<<1>>)>> >>)
    /\ init_sections = <<[section_title |-> "B", content |-> <<1>>, page_number |-> 1]>>

\* what the line with these tokens is to be: a heading or body text
HeadingByRule(tokens) ==
    \/ \E marker \in Markers : startswith(tokens, marker)
    \/ isupper(tokens) /\ len(tokens) < HeadingMaxLen

\* C23: a line is treated as a heading (it closes section "A" and opens its
\* own section) exactly when it starts with one of the three markers or is
\* upper-case and shorter than 100 characters; otherwise it is body text of
\* section "A".
C23_HeadingRule ==
    \A tokens \in ProbeTokens :
        (IsExtract /\ pdf = ProbePdf(tokens)) =>
            IF HeadingByRule(tokens)
            THEN init_sections =
                     <<[section_title |-> "A", content |-> <<2>>, page_number |-> 1],
                       [section_title |-> "L", content |-> <<3>>, page_number |-> 1]>>
            ELSE init_sections =
                     <<[section_title |-> "A",
                        content |-> <<2>> \o Line("L", tokens).words \o <<3>>,
                        page_number |-> 1]>>

\* an upper-case line of exactly 100 characters was read as body text
C23_Witness ==
    /\ IsExtract
    /\ pdf = ProbePdf(<<TIPC, TUpperTo100>>)
    /\ Len(init_sections) = 1
    /\ init_sections[1].content = <<2, 3, 96, 3>>

\* ----------------------------------------------------- formatter claims
IsFormat == result.op = "_format_context"

\* block is what the first characters of content are, at most cap of them
IsPrefix(block, content, cap) ==
    /\ Len(block) <= Len(content)
    /\ TextLen(block) <= cap
    /\ \A j \in 1..Len(block) :
           IF j < Len(block) THEN block[j] = content[j] ELSE block[j] <= content[j]

\* one block per retrieval result, in order, with the title of that result
\* and a prefix of at most the cap of the content of that same result
BlockPerResult ==
    IsFormat =>
        /\ Len(result.value) = Len(result.query)
        /\ \A i \in 1..Len(result.value) :
               /\ result.value[i].section_title = result.query[i].section_title
               /\ IsPrefix(result.value[i].content, result.query[i].content, BlockCap)

\* the total size of LetterK blocks at the cap whose titles are as long as
\* the longest upper-case heading
ContextMax ==
    LetterK * (LabelChars + (HeadingMaxLen - 1) + BlockCap) + 2 * (LetterK - 1)

\* C24: _format_context gives one labelled block per retrieval result, in
\* order, each with the title and at most the first 500 characters of the
\* content of the same result, and the whole context is not longer than a
\* fixed maximum.
C24_BoundedLabelledContext ==
    /\ BlockPerResult
    /\ IsFormat => ContextLen(result.value) <= ContextMax

\* ------------------------------------------------------- startup claims
\* the calls of initialize_rag_system on the RAGSystem and the PDF, in the
\* order of the code
StartupOrder ==
    <<"load_vector_store", "extract_sections", "process_documents",
      "create_vector_store", "save_vector_store">>

\* the calls made so far are the first calls of the order, each made once
InOrder(steps) ==
    /\ Len(steps) <= Len(StartupOrder)
    /\ \A i \in 1..Len(steps) : steps[i] = StartupOrder[i]

StartupOnce ==
    /\ InOrder(init_log.steps)
    /\ init_log.loaded =>
           /\ init_log.steps = <<"load_vector_store">>
           /\ init_log.extract = "none"
           /\ init_log.build = "none"
           /\ ~init_log.saved
           /\ <<faiss_index, documents_pkl>> = diskAtStart
    /\ Len(init_log.steps) = Len(StartupOrder) => (built /\ vector_store # None)
    /\ (startup \in {"assign", "serving"} /\ ~init_log.loaded /\ pdf.exists
            /\ init_log.error = "") =>
           (init_log.steps = StartupOrder /\ init_log.saved)

\* a step taken while the service is serving requests
Serving == startup = "serving" /\ startup' = "serving"

\* C25: initialize_rag_system loads or builds the pair once: after a load
\* that succeeded it extracts, builds and saves nothing; after one that
\* failed, with the PDF there, it calls extract_sections, process_documents,
\* create_vector_store and save_vector_store in this order, the save only
\* after the create succeeded; and a request served afterwards leaves
\* vector_store and documents as they are.
C25_InitializedOnceAtStartup ==
    /\ []StartupOnce
    /\ [][Serving => (vector_store' = vector_store /\ documents' = documents)]_vars

\* a request was served by the pair that the startup built and saved
C25_Witness ==
    /\ startup = "serving"
    /\ init_log.steps = StartupOrder
    /\ init_log.saved
    /\ http.status = 200

\* ------------------------------------------------------- handler claims
IsHealth == http.op = "health_check"
IsLetter == http.op = "generate_letter"
IsCaseLookup == http.op \in {"get_case_details", "export_case_pdf"}

\* C26: when health_check reports rag_system_ready or letter_generator_ready,
\* a create or a load has succeeded on the RAGSystem and it holds an index.
C26_ReadyMeansIndexed ==
    (IsHealth /\ (http.rag_system_ready \/ http.letter_generator_ready)) =>
        (built /\ vector_store # None)

\* the startup ended without a loaded or a built pair
StartupIncomplete ==
    /\ startup = "serving"
    /\ ~init_log.loaded
    /\ ~pdf.exists \/ init_log.error # ""

\* C27: after a startup that did not complete, a generate-letter request is
\* answered 503 and has searched nothing, called no generation and saved
\* nothing.
C27_IncompleteStartupAnswers503 ==
    (IsLetter /\ StartupIncomplete) =>
        /\ http.status = 503
        /\ ~http.searched
        /\ http.calls = <<>>
        /\ http.llm_calls = 0
        /\ ~http.saved
        /\ ~http.success

\* a request was answered 503 after extract_sections raised at startup
C27_Witness ==
    /\ IsLetter
    /\ StartupIncomplete
    /\ init_log.extract = "raised"
    /\ http.status = 503

\* C28: get_case_details and export_case_pdf answer 404 "Case not found"
\* when the collection has no record with the requested id.
C28_MissingCaseIs404 ==
    (IsCaseLookup /\ get_case(db, http.case_id) = None) =>
        (http.status = 404 /\ http.detail = "Case not found")

\* C29: a generate_formal_letter that returned has made one
\* similarity_search, with k = 7, before its two generate_response calls;
\* both calls got the list the search returned, and relevant_documents is
\* that list; one that raised has made the search and nothing else.
C29_OneSearchFeedsBothCalls ==
    (IsLetter /\ http.searched) =>
        /\ result.op = "similarity_search"
        /\ result.k = LetterK
        /\ IF http.status = 200
           THEN /\ http.calls = <<Call("similarity_search", LetterK, <<>>),
                                  Call("generate_response", 0, result.value),
                                  Call("generate_response", 0, result.value)>>
                /\ http.letter.relevant_documents = result.value
           ELSE http.calls = <<Call("similarity_search", LetterK, <<>>)>>

\* a letter was generated from a search that returned more documents than
\* supporting_sections lists
C29_Witness ==
    /\ IsLetter
    /\ http.status = 200
    /\ Len(http.calls) = 3
    /\ Len(http.calls[3].docs) > SupportingMax
    /\ http.letter.relevant_documents = http.calls[3].docs

\* supporting_sections has min(5, number of retrieved documents) entries and
\* entry j is the title and the page number of the j-th retrieved document
SupportingFromRetrieved ==
    (IsLetter /\ http.status = 200) =>
        LET retrieved == http.letter.relevant_documents
            entries == http.letter.supporting_sections
        IN  /\ Len(entries) = (IF Len(retrieved) < SupportingMax
                               THEN Len(retrieved) ELSE SupportingMax)
            /\ \A j \in 1..Len(entries) :
                   entries[j] = <<retrieved[j].section_title, retrieved[j].page_number>>

\* the documents supporting_sections is built from are different chunks, in
\* non-decreasing order of their distance to the query
SupportingAreNearest ==
    (IsLetter /\ http.status = 200) =>
        LET retrieved == http.letter.relevant_documents
            n == Len(http.letter.supporting_sections)
        IN  /\ \A j \in 1..n :
                   retrieved[j].similarity_score
                       = L2(encode(result.query), encode(retrieved[j].content))
            /\ \A j \in 1..(n - 1) :
                   retrieved[j].similarity_score <= retrieved[j + 1].similarity_score
            /\ \A i, j \in 1..n : i # j => retrieved[i].chunk_id # retrieved[j].chunk_id

\* C30: supporting_sections has min(5, number of retrieved documents)
\* entries, entry j built from the title and page number of the j-th
\* retrieved document, and these are the nearest chunks in ascending order
\* of distance.
C30_SupportingSectionsAreNearestFive ==
    SupportingFromRetrieved /\ SupportingAreNearest

====
